---- MODULE Spec2Model ----
(***************************************************************************)
(* The restart supervisor of the vGPU device plugin: start() of            *)
(* cmd/vgpu/main.go.  One control task walks the function body; the        *)
(* filesystem watcher, the signal watcher and the operating system feed    *)
(* its three channels.  Plugin endpoints, the MIG strategy resolver, NVML  *)
(* and the two watchers are collaborators known by their contracts.        *)
(***************************************************************************)
EXTENDS Naturals, Sequences, FiniteSets

VARIABLES
    pc,                   \* the control task's position in start()
    failOnInitErrorFlag,  \* --fail-on-init-error
    migStrategyFlag,      \* --mig-strategy
    nvml,                 \* "unloaded" | "failed" | "ready" | "shutdown" | "shutdown_error"
    nvmlShutdowns,        \* calls of config.Nvml().Shutdown()
    watcher,              \* "none" | "open" | "closed" (the fsnotify watcher)
    watcherEvents,        \* watcher.Events, oldest first
    watcherErrors,        \* watcher.Errors, number of errors waiting
    sigsOpen,             \* NewOSWatcher has been called
    sigs,                 \* the signal channel, oldest first
    cache,                \* "new" | "running" | "stopped" (the device cache)
    register,             \* "new" | "running" | "stopped" (the device register)
    plugins,              \* the PluginSet, a sequence of endpoint records
    idx,                  \* position of the range loop that is running
    started,              \* the started counter of the current cycle
    pluginStartError,     \* "nil" | "open" | "closed"
    noDevicesLogged,      \* "No devices found. Waiting indefinitely." logged this cycle
    retired,              \* what the endpoints of replaced PluginSets looked like when dropped
    cycleOps,             \* the collaborator calls of the current cycle, repeats collapsed
    lastEvent,            \* tag of the event the select consumed last in this event wait
    ret                   \* "none" | "nil" | "error": what start() returned

vars == <<pc, failOnInitErrorFlag, migStrategyFlag, nvml, nvmlShutdowns, watcher,
          watcherEvents, watcherErrors, sigsOpen, sigs, cache, register, plugins,
          idx, started, pluginStartError, noDevicesLogged, retired, cycleOps,
          lastEvent, ret>>

\* What the control task owns: everything but the three channels' contents.
ctl == <<pc, nvml, nvmlShutdowns, watcher, sigsOpen, cache, register, plugins, idx,
         started, pluginStartError, noDevicesLogged, retired, cycleOps, ret>>

-----------------------------------------------------------------------------
\* Bounds of the model.
MaxPlugins == 3
\* At most this many events wait in the three channels together.
MaxPending == 1

\* An endpoint owns no device or some; the code asks no more than that.
DeviceCounts == {0, 1}

\* The strategy names of --mig-strategy; the flag holds its default or a
\* name that is none of them.
MigStrategies == {"none", "single", "mixed"}
StrategyNames == {"none", "bogus"}

\* The signals handed to NewOSWatcher.
WatchedSignals == {"SIGHUP", "SIGINT", "SIGTERM", "SIGQUIT"}

\* pluginapi.KubeletSocket, and some other file of the watched directory.
KubeletSocket == "kubelet.sock"
FsNames == {KubeletSocket, "other.sock"}
\* An fsnotify.Op is a set of operation bits.
FsOps == {{"Create"}, {"Write"}, {"Create", "Write"}}
FsEvents == [Name : FsNames, Op : FsOps]

\* What GetPlugins can return: per endpoint, how many devices it owns.
\* The layout <<2, 0, 1>> is among them whatever the bounds.
PluginSets == UNION {[1..n -> DeviceCounts] : n \in 0..MaxPlugins} \cup {<<2, 0, 1>>}

NewPlugin(d) == [devices |-> d, serving |-> FALSE, starts |-> 0, stops |-> 0]

\* NvidiaDevicePlugin.Devices()
Devices(p) == p.devices

\* NvidiaDevicePlugin.Stop(): idempotent, safe on a plugin that never started.
Stop(p) == [p EXCEPT !.serving = FALSE, !.stops = @ + 1]

\* NvidiaDevicePlugin.Start(): serves and registers, or fails and serves nothing.
Start(p, ok) == [p EXCEPT !.serving = ok, !.starts = @ + 1]

\* NewMigStrategy: an error for a name that is no strategy.
NewMigStrategy(name) == name \in MigStrategies

\* event.Op&fsnotify.Create == fsnotify.Create
HasCreate(op) == "Create" \in op

\* Variant: any file's creation counts as the kubelet's restart.
IsKubeletRestart_AnyName(event) == HasCreate(event.Op)

IsKubeletRestart(event) == event.Name = KubeletSocket /\ HasCreate(event.Op)

Log(ops, op) == IF ops # <<>> /\ ops[Len(ops)] = op THEN ops ELSE Append(ops, op)

\* What is left of a PluginSet once plugins is assigned anew: per endpoint,
\* whether it still serves and how often it was stopped.
Retire(ps) == {[serving |-> ps[k].serving, stops |-> ps[k].stops] : k \in 1..Len(ps)}

Pending == Len(watcherEvents) + watcherErrors + Len(sigs)

-----------------------------------------------------------------------------
Init ==
    /\ pc = "nvml_init"
    /\ failOnInitErrorFlag \in BOOLEAN
    /\ migStrategyFlag \in StrategyNames
    /\ nvml = "unloaded"
    /\ nvmlShutdowns = 0
    /\ watcher = "none"
    /\ watcherEvents = <<>>
    /\ watcherErrors = 0
    /\ sigsOpen = FALSE
    /\ sigs = <<>>
    /\ cache = "new"
    /\ register = "new"
    /\ plugins = <<>>
    /\ idx = 1
    /\ started = 0
    /\ pluginStartError = "nil"
    /\ noDevicesLogged = FALSE
    /\ retired = {}
    /\ cycleOps = <<>>
    /\ lastEvent = "none"
    /\ ret = "none"

\* Variant: Shutdown() is not among the deferred calls.
Return_NoShutdown(r) ==
    /\ pc' = "done"
    /\ ret' = r
    /\ register' = IF register = "running" THEN "stopped" ELSE register
    /\ cache' = IF cache = "running" THEN "stopped" ELSE cache
    /\ watcher' = IF watcher = "open" THEN "closed" ELSE watcher
    /\ nvml' = nvml
    /\ nvmlShutdowns' = nvmlShutdowns

\* A return of start(): the deferred calls run, last registered first.
\* Shutdown() succeeds or not; its result is logged.
Return(r) ==
    /\ pc' = "done"
    /\ ret' = r
    /\ register' = IF register = "running" THEN "stopped" ELSE register
    /\ cache' = IF cache = "running" THEN "stopped" ELSE cache
    /\ watcher' = IF watcher = "open" THEN "closed" ELSE watcher
    /\ nvml' \in IF nvml = "ready" THEN {"shutdown", "shutdown_error"} ELSE {nvml}
    /\ nvmlShutdowns' = IF nvml = "ready" THEN nvmlShutdowns + 1 ELSE nvmlShutdowns

\* Variant: the stop loop starts at the second plugin.
GotoRestart_SkipFirst ==
    /\ pc' = "restart"
    /\ idx' = 2
    /\ cycleOps' = <<>>

\* goto restart
GotoRestart ==
    /\ pc' = "restart"
    /\ idx' = 1
    /\ cycleOps' = <<>>

chans == <<watcherEvents, watcherErrors, sigs>>
flags == <<failOnInitErrorFlag, migStrategyFlag>>
procs == <<nvml, nvmlShutdowns, watcher, cache, register, ret>>
cycle == <<plugins, started, pluginStartError, noDevicesLogged, retired>>

-----------------------------------------------------------------------------
\* Lines 84-95: Init() succeeds and Shutdown() is deferred.
NvmlInitOK ==
    /\ pc = "nvml_init"
    /\ nvml' = "ready"
    /\ pc' = "fs_watcher"
    /\ UNCHANGED <<flags, nvmlShutdowns, watcher, chans, sigsOpen, cache, register,
                   cycle, idx, cycleOps, lastEvent, ret>>

\* Variant: without fail-fast the failure is logged and start() carries on.
NvmlInitFail_CarriesOn ==
    /\ pc = "nvml_init"
    /\ nvml' = "failed"
    /\ IF failOnInitErrorFlag
         THEN /\ pc' = "done"
              /\ ret' = "error"
         ELSE /\ pc' = "fs_watcher"
              /\ ret' = ret
    /\ UNCHANGED <<flags, nvmlShutdowns, watcher, chans, sigsOpen, cache, register,
                   cycle, idx, cycleOps, lastEvent>>

\* Variant: the failure blocks whatever the flag says.
NvmlInitFail_AlwaysBlocks ==
    /\ pc = "nvml_init"
    /\ nvml' = "failed"
    /\ pc' = "blocked"
    /\ UNCHANGED <<flags, nvmlShutdowns, watcher, chans, sigsOpen, cache, register,
                   cycle, idx, cycleOps, lastEvent, ret>>

\* Lines 84-94: Init() fails; return the error, or block in select {}.
NvmlInitFail ==
    /\ pc = "nvml_init"
    /\ nvml' = "failed"
    /\ IF failOnInitErrorFlag
         THEN /\ pc' = "done"
              /\ ret' = "error"
         ELSE /\ pc' = "blocked"
              /\ ret' = ret
    /\ UNCHANGED <<flags, nvmlShutdowns, watcher, chans, sigsOpen, cache, register,
                   cycle, idx, cycleOps, lastEvent>>

\* Lines 97-102: the filesystem watcher is created and its Close deferred.
NewFSWatcherOK ==
    /\ pc = "fs_watcher"
    /\ watcher' = "open"
    /\ pc' = "os_watcher"
    /\ UNCHANGED <<flags, nvml, nvmlShutdowns, chans, sigsOpen, cache, register,
                   cycle, idx, cycleOps, lastEvent, ret>>

\* Lines 98-101: the filesystem watcher cannot be created.
NewFSWatcherFail ==
    /\ pc = "fs_watcher"
    /\ Return("error")
    /\ UNCHANGED <<flags, chans, sigsOpen, cycle, idx, cycleOps, lastEvent>>

\* Lines 104-107: signals are routed to sigs from here on.
NewOSWatcher ==
    /\ pc = "os_watcher"
    /\ sigsOpen' = TRUE
    /\ pc' = "cache"
    /\ UNCHANGED <<flags, nvml, nvmlShutdowns, watcher, chans, cache, register,
                   cycle, idx, cycleOps, lastEvent, ret>>

\* Lines 109-111
CacheStart ==
    /\ pc = "cache"
    /\ cache' = "running"
    /\ pc' = "register"
    /\ UNCHANGED <<flags, nvml, nvmlShutdowns, watcher, chans, sigsOpen, register,
                   cycle, idx, cycleOps, lastEvent, ret>>

\* Lines 113-118: the register starts; plugins is nil; fall into restart.
RegisterStart ==
    /\ pc = "register"
    /\ register' = "running"
    /\ GotoRestart
    /\ UNCHANGED <<flags, nvml, nvmlShutdowns, watcher, chans, sigsOpen, cache,
                   cycle, lastEvent, ret>>

-----------------------------------------------------------------------------
\* Variant: only a plugin that serves is stopped.
StopOld_OnlyServing ==
    /\ pc = "restart"
    /\ idx <= Len(plugins)
    /\ plugins' = IF plugins[idx].serving
                     THEN [plugins EXCEPT ![idx] = Stop(@)]
                     ELSE plugins
    /\ idx' = idx + 1
    /\ cycleOps' = Log(cycleOps, "Stop")
    /\ UNCHANGED <<flags, procs, chans, sigsOpen, pc, started, pluginStartError,
                   noDevicesLogged, retired, lastEvent>>

\* Lines 121-123: one iteration of the loop that stops the outgoing plugins.
StopOld ==
    /\ pc = "restart"
    /\ idx <= Len(plugins)
    /\ plugins' = [plugins EXCEPT ![idx] = Stop(@)]
    /\ idx' = idx + 1
    /\ cycleOps' = Log(cycleOps, "Stop")
    /\ UNCHANGED <<flags, procs, chans, sigsOpen, pc, started, pluginStartError,
                   noDevicesLogged, retired, lastEvent>>

\* Variant: the plugins are retrieved without waiting for the stop loop's end.
Resolve_BeforeStopAll ==
    /\ pc = "restart"
    /\ NewMigStrategy(migStrategyFlag)
    /\ \E ds \in PluginSets :
          plugins' = [k \in 1..Len(ds) |-> NewPlugin(ds[k])]
    /\ retired' = retired \cup Retire(plugins)
    /\ started' = 0
    /\ pluginStartError' = "open"
    /\ noDevicesLogged' = FALSE
    /\ idx' = 1
    /\ cycleOps' = Log(cycleOps, "Resolve")
    /\ pc' = "start"
    /\ UNCHANGED <<flags, procs, chans, sigsOpen, lastEvent>>

\* Variant: the start loop goes on from where the stop loop ended.
Resolve_KeepsIndex ==
    /\ pc = "restart"
    /\ idx > Len(plugins)
    /\ NewMigStrategy(migStrategyFlag)
    /\ \E ds \in PluginSets :
          plugins' = [k \in 1..Len(ds) |-> NewPlugin(ds[k])]
    /\ retired' = retired \cup Retire(plugins)
    /\ started' = 0
    /\ pluginStartError' = "open"
    /\ noDevicesLogged' = FALSE
    /\ idx' = idx
    /\ cycleOps' = Log(cycleOps, "Resolve")
    /\ pc' = "start"
    /\ UNCHANGED <<flags, procs, chans, sigsOpen, lastEvent>>

\* Variant: the watchers are made anew in every cycle; what waited is dropped.
Resolve_RenewsWatchers ==
    /\ pc = "restart"
    /\ idx > Len(plugins)
    /\ NewMigStrategy(migStrategyFlag)
    /\ \E ds \in PluginSets :
          plugins' = [k \in 1..Len(ds) |-> NewPlugin(ds[k])]
    /\ retired' = retired \cup Retire(plugins)
    /\ started' = 0
    /\ pluginStartError' = "open"
    /\ noDevicesLogged' = FALSE
    /\ idx' = 1
    /\ cycleOps' = Log(cycleOps, "Resolve")
    /\ pc' = "start"
    /\ watcherEvents' = <<>>
    /\ watcherErrors' = 0
    /\ sigs' = <<>>
    /\ UNCHANGED <<flags, procs, sigsOpen, lastEvent>>

\* Variant: the failure channel is made once and kept over the cycles.
Resolve_ReusesChannel ==
    /\ pc = "restart"
    /\ idx > Len(plugins)
    /\ NewMigStrategy(migStrategyFlag)
    /\ \E ds \in PluginSets :
          plugins' = [k \in 1..Len(ds) |-> NewPlugin(ds[k])]
    /\ retired' = retired \cup Retire(plugins)
    /\ started' = 0
    /\ pluginStartError' = IF pluginStartError = "nil" THEN "open" ELSE pluginStartError
    /\ noDevicesLogged' = FALSE
    /\ idx' = 1
    /\ cycleOps' = Log(cycleOps, "Resolve")
    /\ pc' = "start"
    /\ UNCHANGED <<flags, procs, chans, sigsOpen, lastEvent>>

\* Lines 124-132: the strategy resolves; a new PluginSet, counter and channel.
Resolve ==
    /\ pc = "restart"
    /\ idx > Len(plugins)
    /\ NewMigStrategy(migStrategyFlag)
    /\ \E ds \in PluginSets :
          plugins' = [k \in 1..Len(ds) |-> NewPlugin(ds[k])]
    /\ retired' = retired \cup Retire(plugins)
    /\ started' = 0
    /\ pluginStartError' = "open"
    /\ noDevicesLogged' = FALSE
    /\ idx' = 1
    /\ cycleOps' = Log(cycleOps, "Resolve")
    /\ pc' = "start"
    /\ UNCHANGED <<flags, procs, chans, sigsOpen, lastEvent>>

\* Variant: the resolver's error is logged and the event wait is entered.
ResolveFail_WaitsForEvents ==
    /\ pc = "restart"
    /\ idx > Len(plugins)
    /\ ~NewMigStrategy(migStrategyFlag)
    /\ pc' = "events"
    /\ cycleOps' = Log(cycleOps, "Resolve")
    /\ UNCHANGED <<flags, procs, chans, sigsOpen, cycle, idx, lastEvent>>

\* Lines 125-128: the strategy name is unknown; start() returns the error.
ResolveFail ==
    /\ pc = "restart"
    /\ idx > Len(plugins)
    /\ ~NewMigStrategy(migStrategyFlag)
    /\ Return("error")
    /\ cycleOps' = Log(cycleOps, "Resolve")
    /\ UNCHANGED <<flags, chans, sigsOpen, cycle, idx, lastEvent>>

\* Variant: a plugin without devices is started like any other.
StartSkip_StartsAnyway ==
    /\ pc = "start"
    /\ idx <= Len(plugins)
    /\ Devices(plugins[idx]) = 0
    /\ plugins' = [plugins EXCEPT ![idx] = Start(@, TRUE)]
    /\ started' = started + 1
    /\ idx' = idx + 1
    /\ cycleOps' = Log(cycleOps, "Start")
    /\ UNCHANGED <<flags, procs, chans, sigsOpen, pc, pluginStartError,
                   noDevicesLogged, retired, lastEvent>>

\* Lines 133-137: a plugin without devices is passed over.
StartSkip ==
    /\ pc = "start"
    /\ idx <= Len(plugins)
    /\ Devices(plugins[idx]) = 0
    /\ idx' = idx + 1
    /\ UNCHANGED <<flags, procs, chans, sigsOpen, pc, cycle, cycleOps, lastEvent>>

\* Lines 140, 148: Start() succeeds.
StartOK ==
    /\ pc = "start"
    /\ idx <= Len(plugins)
    /\ Devices(plugins[idx]) # 0
    /\ plugins' = [plugins EXCEPT ![idx] = Start(@, TRUE)]
    /\ started' = started + 1
    /\ idx' = idx + 1
    /\ cycleOps' = Log(cycleOps, "Start")
    /\ UNCHANGED <<flags, procs, chans, sigsOpen, pc, pluginStartError,
                   noDevicesLogged, retired, lastEvent>>

\* Variant: a failed Start() closes the channel and the loop goes on.
StartFail_Continue ==
    /\ pc = "start"
    /\ idx <= Len(plugins)
    /\ Devices(plugins[idx]) # 0
    /\ plugins' = [plugins EXCEPT ![idx] = Start(@, FALSE)]
    /\ pluginStartError' = "closed"
    /\ cycleOps' = Log(cycleOps, "Start")
    /\ idx' = idx + 1
    /\ UNCHANGED <<flags, procs, chans, sigsOpen, pc, started, noDevicesLogged,
                   retired, lastEvent>>

\* Variant: a failed Start() makes start() return the error.
StartFail_ReturnsError ==
    /\ pc = "start"
    /\ idx <= Len(plugins)
    /\ Devices(plugins[idx]) # 0
    /\ plugins' = [plugins EXCEPT ![idx] = Start(@, FALSE)]
    /\ pluginStartError' = "closed"
    /\ cycleOps' = Log(cycleOps, "Start")
    /\ Return("error")
    /\ UNCHANGED <<flags, chans, sigsOpen, idx, started, noDevicesLogged,
                   retired, lastEvent>>

\* Lines 140-147: Start() fails; close the channel and leave the loop.
StartFail ==
    /\ pc = "start"
    /\ idx <= Len(plugins)
    /\ Devices(plugins[idx]) # 0
    /\ plugins' = [plugins EXCEPT ![idx] = Start(@, FALSE)]
    /\ pluginStartError' = "closed"
    /\ cycleOps' = Log(cycleOps, "Start")
    /\ lastEvent' = "none"
    /\ pc' = "events"
    /\ UNCHANGED <<flags, procs, chans, sigsOpen, idx, started, noDevicesLogged,
                   retired>>

\* Variant: start() returns when no plugin was started.
StartPassEnd_ExitsWhenNone ==
    /\ pc = "start"
    /\ idx > Len(plugins)
    /\ noDevicesLogged' = (started = 0)
    /\ lastEvent' = "none"
    /\ IF started = 0
         THEN Return("nil")
         ELSE pc' = "events" /\ UNCHANGED <<procs, ret>>
    /\ UNCHANGED <<flags, chans, sigsOpen, plugins, idx, started,
                   pluginStartError, retired, cycleOps>>

\* Lines 149-155: the loop is through; log when nothing started.
StartPassEnd ==
    /\ pc = "start"
    /\ idx > Len(plugins)
    /\ noDevicesLogged' = (started = 0)
    /\ lastEvent' = "none"
    /\ pc' = "events"
    /\ UNCHANGED <<flags, procs, chans, sigsOpen, plugins, idx, started,
                   pluginStartError, retired, cycleOps>>

-----------------------------------------------------------------------------
\* Lines 161-162: the closed channel is ready.
RecvPluginStartError ==
    /\ pc = "events"
    /\ pluginStartError = "closed"
    /\ lastEvent' = "PluginFailure"
    /\ GotoRestart
    /\ UNCHANGED <<flags, procs, chans, sigsOpen, cycle>>

\* Lines 167-171: a filesystem event; restart on the kubelet socket's creation.
RecvWatcherEvent ==
    /\ pc = "events"
    /\ watcherEvents # <<>>
    /\ watcherEvents' = Tail(watcherEvents)
    /\ IF IsKubeletRestart(Head(watcherEvents))
         THEN /\ lastEvent' = "AgentRestartDetected"
              /\ GotoRestart
         ELSE /\ lastEvent' = "FsIgnored"
              /\ UNCHANGED <<pc, idx, cycleOps>>
    /\ UNCHANGED <<flags, procs, watcherErrors, sigs, sigsOpen, cycle>>

\* Variant: a watcher error restarts the plugins.
RecvWatcherError_Restarts ==
    /\ pc = "events"
    /\ watcherErrors > 0
    /\ watcherErrors' = watcherErrors - 1
    /\ lastEvent' = "WatchError"
    /\ GotoRestart
    /\ UNCHANGED <<flags, procs, watcherEvents, sigs, sigsOpen, cycle>>

\* Lines 174-175: a watcher error is logged.
RecvWatcherError ==
    /\ pc = "events"
    /\ watcherErrors > 0
    /\ watcherErrors' = watcherErrors - 1
    /\ lastEvent' = "WatchError"
    /\ UNCHANGED <<flags, procs, watcherEvents, sigs, sigsOpen, pc, idx, cycle,
                   cycleOps>>

\* Variant: a fatal signal leaves the loop without stopping the plugins.
RecvSignal_NoDrainStops ==
    /\ pc = "events"
    /\ sigs # <<>>
    /\ sigs' = Tail(sigs)
    /\ IF Head(sigs) = "SIGHUP"
         THEN /\ lastEvent' = "ReloadSignal"
              /\ GotoRestart
         ELSE /\ lastEvent' = "FatalSignal"
              /\ pc' = "drain"
              /\ idx' = Len(plugins) + 1
              /\ UNCHANGED cycleOps
    /\ UNCHANGED <<flags, procs, watcherEvents, watcherErrors, sigsOpen, cycle>>

\* Variant: SIGHUP restarts without stopping the plugins.
RecvSignal_ReloadKeepsPlugins ==
    /\ pc = "events"
    /\ sigs # <<>>
    /\ sigs' = Tail(sigs)
    /\ IF Head(sigs) = "SIGHUP"
         THEN /\ lastEvent' = "ReloadSignal"
              /\ pc' = "restart"
              /\ idx' = Len(plugins) + 1
              /\ cycleOps' = <<>>
         ELSE /\ lastEvent' = "FatalSignal"
              /\ pc' = "drain"
              /\ idx' = 1
              /\ UNCHANGED cycleOps
    /\ UNCHANGED <<flags, procs, watcherEvents, watcherErrors, sigsOpen, cycle>>

\* Variant: every signal restarts the plugins.
RecvSignal_AlwaysRestarts ==
    /\ pc = "events"
    /\ sigs # <<>>
    /\ sigs' = Tail(sigs)
    /\ lastEvent' = IF Head(sigs) = "SIGHUP" THEN "ReloadSignal" ELSE "FatalSignal"
    /\ GotoRestart
    /\ UNCHANGED <<flags, procs, watcherEvents, watcherErrors, sigsOpen, cycle>>

\* Lines 180-191: SIGHUP restarts; any other signal goes on to stop the plugins.
RecvSignal ==
    /\ pc = "events"
    /\ sigs # <<>>
    /\ sigs' = Tail(sigs)
    /\ IF Head(sigs) = "SIGHUP"
         THEN /\ lastEvent' = "ReloadSignal"
              /\ GotoRestart
         ELSE /\ lastEvent' = "FatalSignal"
              /\ pc' = "drain"
              /\ idx' = 1
              /\ UNCHANGED cycleOps
    /\ UNCHANGED <<flags, procs, watcherEvents, watcherErrors, sigsOpen, cycle>>

\* Lines 187-189: one iteration of the loop that stops the plugins for good.
DrainStop ==
    /\ pc = "drain"
    /\ idx <= Len(plugins)
    /\ plugins' = [plugins EXCEPT ![idx] = Stop(@)]
    /\ idx' = idx + 1
    /\ cycleOps' = Log(cycleOps, "Stop")
    /\ UNCHANGED <<flags, procs, chans, sigsOpen, pc, started, pluginStartError,
                   noDevicesLogged, retired, lastEvent>>

\* Variant: the event loop is left from inside the loop over the plugins.
DrainDone_BreaksInLoop ==
    /\ pc = "drain"
    /\ idx > 1 \/ plugins = <<>>
    /\ Return("nil")
    /\ UNCHANGED <<flags, chans, sigsOpen, cycle, idx, cycleOps, lastEvent>>

\* Lines 190-194: break events; return nil.
DrainDone ==
    /\ pc = "drain"
    /\ idx > Len(plugins)
    /\ Return("nil")
    /\ UNCHANGED <<flags, chans, sigsOpen, cycle, idx, cycleOps, lastEvent>>

-----------------------------------------------------------------------------
\* The environment: the watched directory changes, the watcher reports an
\* error, the process is sent a watched signal.
FsNotify ==
    /\ watcher = "open"
    /\ Pending < MaxPending
    /\ \E e \in FsEvents : watcherEvents' = Append(watcherEvents, e)
    /\ UNCHANGED <<ctl, flags, watcherErrors, sigs, lastEvent>>

FsNotifyError ==
    /\ watcher = "open"
    /\ Pending < MaxPending
    /\ watcherErrors' = watcherErrors + 1
    /\ UNCHANGED <<ctl, flags, watcherEvents, sigs, lastEvent>>

SignalNotify ==
    /\ sigsOpen
    /\ pc # "done"
    /\ Pending < MaxPending
    /\ \E s \in WatchedSignals : sigs' = Append(sigs, s)
    /\ UNCHANGED <<ctl, flags, watcherEvents, watcherErrors, lastEvent>>

Supervisor ==
    \/ NvmlInitOK \/ NvmlInitFail
    \/ NewFSWatcherOK \/ NewFSWatcherFail
    \/ NewOSWatcher \/ CacheStart \/ RegisterStart
    \/ StopOld \/ Resolve \/ ResolveFail
    \/ StartSkip \/ StartOK \/ StartFail \/ StartPassEnd
    \/ RecvPluginStartError \/ RecvWatcherEvent \/ RecvWatcherError \/ RecvSignal
    \/ DrainStop \/ DrainDone

Environment == FsNotify \/ FsNotifyError \/ SignalNotify

Next == Supervisor \/ Environment

Spec == Init /\ [][Next]_vars

\* Stop(), Start() and the resolver return, and a select whose closed
\* pluginStartError stays ready takes that case in the end.
Fairness ==
    /\ WF_vars(StopOld)
    /\ WF_vars(Resolve)
    /\ WF_vars(StartSkip)
    /\ WF_vars(StartOK \/ StartFail)
    /\ WF_vars(StartPassEnd)
    /\ WF_vars(RecvPluginStartError)
    /\ WF_vars(DrainStop)
    /\ WF_vars(DrainDone)

FairSpec == Spec /\ Fairness

\* Outside the event wait the control task runs on: every call it makes
\* returns.  The select picks among its ready cases at random, so it takes the
\* closed pluginStartError in the end and does not pass over a waiting signal
\* or filesystem event every time it is entered.
ControlStep ==
    \/ CacheStart \/ RegisterStart
    \/ StopOld \/ Resolve \/ ResolveFail
    \/ StartSkip \/ StartOK \/ StartFail \/ StartPassEnd
    \/ DrainStop \/ DrainDone

EventFairness ==
    /\ WF_vars(ControlStep)
    /\ WF_vars(RecvPluginStartError)
    /\ SF_vars(RecvSignal)
    /\ SF_vars(RecvWatcherEvent)

EventFairSpec == Spec /\ EventFairness

-----------------------------------------------------------------------------
\* Properties.

Indices == 1..Len(plugins)

Draining == pc \in {"drain", "done"} /\ lastEvent = "FatalSignal"

\* The calls of one cycle come in the order Stop, Resolve, Start; only the
\* final drain stops plugins after that.
InCycleOrder ==
    \A a, b \in 1..Len(cycleOps) :
        a < b =>
            /\ ~(cycleOps[a] = "Start" /\ cycleOps[b] = "Resolve")
            /\ ~(cycleOps[a] = "Resolve" /\ cycleOps[b] = "Resolve")
            /\ cycleOps[b] = "Stop" => Draining

\* C1: in every restart cycle the resolver is invoked, and so any new endpoint
\* started, only after Stop() has returned for every endpoint of the previous
\* PluginSet; the calls of one cycle are ordered stop-all, resolve, start.
C1_StopAllBeforeResolveBeforeStart ==
    /\ \A r \in retired : r.stops >= 1
    /\ (cycleOps # <<>> /\ cycleOps[Len(cycleOps)] = "Resolve" /\ pc = "done")
          => \A k \in Indices : plugins[k].stops >= 1
    /\ InCycleOrder

\* A second cycle has stopped served endpoints, resolved, and started one.
C1_Witness ==
    /\ pc = "start"
    /\ retired # {}
    /\ started >= 1
    /\ cycleOps = <<"Stop", "Resolve", "Start">>

\* C2: every endpoint that is serving belongs to the PluginSet built last: no
\* endpoint of a replaced PluginSet was serving when the next set was built.
C2_OneLivePluginSet ==
    \A r \in retired : ~r.serving

\* A PluginSet has been replaced and an endpoint of the new one serves.
C2_Witness ==
    /\ retired # {}
    /\ \E k \in Indices : plugins[k].serving

\* Endpoint k had Start() called, it failed, and nothing has stopped it since.
FailedAt(k) == plugins[k].starts = 1 /\ ~plugins[k].serving /\ plugins[k].stops = 0

Failures == {k \in Indices : FailedAt(k)}

\* A failed Start() ends the pass at once and closes the channel once; a
\* receive from the closed channel answers exactly one failure of the cycle
\* that just ended.
AbortOnFirstFailure ==
    /\ (pc = "events" /\ pluginStartError = "closed")
          => /\ idx \in Indices
             /\ Failures = {idx}
             /\ \A k \in Indices : k > idx => plugins[k].starts = 0
    /\ (pc \in {"start", "events"} /\ pluginStartError = "open") => Failures = {}
    /\ (pc = "restart" /\ idx = 1 /\ lastEvent = "PluginFailure")
          => pluginStartError = "closed" /\ Cardinality(Failures) = 1

\* C3 (amended): if an endpoint's Start() fails, no endpoint after it has
\* Start() called in that cycle and the cycle produces exactly one
\* PluginFailure trigger; the trigger causes at most one restart, and the
\* cycle ends without a restart only when a fatal signal is handled first.
C3_AbortAndOneTrigger ==
    /\ AbortOnFirstFailure
    /\ (pluginStartError = "closed" /\ pc \in {"drain", "done"}) => Draining

\* The first endpoint failed to start and a later one owns devices.
C3_Witness ==
    /\ pc = "events"
    /\ pluginStartError = "closed"
    /\ \E k \in Indices : k > idx /\ Devices(plugins[k]) # 0 /\ plugins[k].starts = 0

\* C3 as stated: a cycle with a failed Start() causes exactly one restart, not
\* zero, so the supervisor never leaves such a cycle other than by restarting.
C3_Original ==
    /\ AbortOnFirstFailure
    /\ ~(pluginStartError = "closed" /\ pc \in {"drain", "done"})

\* The select consumed nothing in this step.
NothingReceived ==
    /\ Len(sigs') >= Len(sigs)
    /\ Len(watcherEvents') >= Len(watcherEvents)
    /\ watcherErrors' >= watcherErrors

\* No Start() and no resolver call in this step.
NoStartNoResolve ==
    /\ Len(plugins') = Len(plugins)
    /\ \A k \in Indices : /\ plugins'[k].starts = plugins[k].starts
                           /\ plugins'[k].devices = plugins[k].devices
    /\ retired' = retired
    /\ pluginStartError' = pluginStartError
    /\ started' = started

FatalSignalReceived ==
    /\ pc = "events"
    /\ sigs # <<>>
    /\ Head(sigs) # "SIGHUP"
    /\ sigs' = Tail(sigs)

\* C4: handling an interrupt, terminate or quit signal in Serving leads to
\* Draining, where every endpoint that had Start() called gets Stop() exactly
\* once and nothing is started, resolved or received any more; start() then
\* returns nil.
C4_FatalSignalDrains ==
    /\ [][FatalSignalReceived => pc' = "drain" /\ NoStartNoResolve]_vars
    /\ [][Draining => /\ Draining'
                      /\ NothingReceived
                      /\ NoStartNoResolve
                      /\ \A k \in Indices : plugins'[k].stops <= 1]_vars
    /\ [](Draining /\ pc = "done"
            => /\ ret = "nil"
               /\ \A k \in Indices :
                     plugins[k].starts >= 1 => plugins[k].stops = 1 /\ ~plugins[k].serving)

\* start() has returned after a fatal signal; a started endpoint was stopped
\* once and a signal that arrived during the drain is still in the channel.
C4_Witness ==
    /\ Draining
    /\ pc = "done"
    /\ sigs # <<>>
    /\ \E k \in Indices : plugins[k].starts = 1 /\ plugins[k].stops = 1

\* The start loop attempts the endpoints that own devices from the top, in
\* order, and goes no further than the first failure.
AttemptedInOrder ==
    /\ pc = "start"
          => \A k \in Indices : (k < idx /\ Devices(plugins[k]) # 0) => plugins[k].starts = 1
    /\ (pc = "events" /\ pluginStartError = "open")
          => \A k \in Indices : Devices(plugins[k]) # 0 => plugins[k].starts = 1
    /\ (pc = "events" /\ pluginStartError = "closed")
          => \A k \in Indices : (k <= idx /\ Devices(plugins[k]) # 0) => plugins[k].starts = 1

\* C5 (amended): after a failed Start() the supervisor eventually runs a full
\* restart cycle, unless a fatal signal is handled first, and that cycle
\* attempts Start() from the top, in order, on each endpoint that owns
\* devices up to and including the first whose Start() fails: on all of them
\* if none fails.
C5_RetryFromTop ==
    /\ (pc = "events" /\ pluginStartError = "closed")
          ~> (Draining \/ (pc = "start" /\ idx = 1 /\ pluginStartError = "open"))
    /\ []AttemptedInOrder

\* The cycle after a plugin failure has attempted all of its three endpoints.
C5_Witness ==
    /\ pc = "start"
    /\ lastEvent = "PluginFailure"
    /\ Len(plugins) = 3
    /\ idx > Len(plugins)
    /\ started = 3

\* C5 as stated: the pass of the cycle that follows a plugin failure ends
\* with Start() attempted on every endpoint that owns devices.
C5_Original ==
    [][(pc = "start" /\ lastEvent = "PluginFailure" /\ pc' = "events")
         => \A k \in 1..Len(plugins') :
               Devices(plugins'[k]) # 0 => plugins'[k].starts >= 1]_vars

DeviceOwners(n) == {k \in Indices : k <= n /\ Devices(plugins[k]) # 0}

\* C6: while no Start() has failed in the cycle, Start() has been called once
\* on each endpoint with devices that the loop has passed, in order, never on
\* an endpoint without devices, and started counts exactly those calls; at
\* the end of the pass it is the number of endpoints that own devices.
C6_StartsDeviceOwnersOnce ==
    /\ \A k \in Indices : Devices(plugins[k]) = 0 => plugins[k].starts = 0
    /\ (pc = "start" /\ pluginStartError = "open")
          => /\ \A k \in Indices :
                   plugins[k].starts = IF k \in DeviceOwners(idx - 1) THEN 1 ELSE 0
             /\ started = Cardinality(DeviceOwners(idx - 1))
    /\ (pc = "events" /\ pluginStartError = "open")
          => /\ \A k \in Indices :
                   /\ plugins[k].starts = IF Devices(plugins[k]) # 0 THEN 1 ELSE 0
                   /\ plugins[k].serving = (Devices(plugins[k]) # 0)
             /\ started = Cardinality(DeviceOwners(Len(plugins)))

\* Device counts <<2, 0, 1>>: the first and third endpoint started, count 2.
C6_Witness ==
    /\ pc = "events"
    /\ pluginStartError = "open"
    /\ Len(plugins) = 3
    /\ <<Devices(plugins[1]), Devices(plugins[2]), Devices(plugins[3])>> = <<2, 0, 1>>
    /\ <<plugins[1].starts, plugins[2].starts, plugins[3].starts>> = <<1, 0, 1>>
    /\ started = 2

WatcherEventReceived ==
    /\ pc = "events"
    /\ watcherEvents # <<>>
    /\ watcherEvents' = Tail(watcherEvents)

CreateOfKubeletSocket(e) == e.Name = KubeletSocket /\ "Create" \in e.Op

\* What goto restart does and what it leaves alone.
RestartEffect ==
    /\ pc' = "restart"
    /\ idx' = 1
    /\ cycleOps' = <<>>
    /\ UNCHANGED <<procs, sigsOpen, cycle>>

\* C7: a filesystem event restarts the plugins only if it is a Create of the
\* kubelet socket; any other event is consumed and changes nothing of the
\* supervisor: it stays in Serving with the same PluginSet and no call made.
C7_OnlySocketCreateRestarts ==
    [][WatcherEventReceived
         => IF CreateOfKubeletSocket(Head(watcherEvents))
              THEN pc' = "restart"
              ELSE UNCHANGED ctl]_vars

\* An event that is no Create of the socket was consumed while an endpoint serves.
C7_Witness ==
    /\ pc = "events"
    /\ lastEvent = "FsIgnored"
    /\ \E k \in Indices : plugins[k].serving

ReloadReceived ==
    /\ pc = "events"
    /\ sigs # <<>>
    /\ Head(sigs) = "SIGHUP"
    /\ sigs' = Tail(sigs)

\* C8: a SIGHUP and a Create of the kubelet socket, handled in the same
\* supervisor state, lead to the same state: the top of a restart cycle with
\* the PluginSet and all else as it was, so the same stops, resolve and starts
\* follow.
C8_ReloadSameAsSocketCreate ==
    [][(ReloadReceived
          \/ (WatcherEventReceived /\ CreateOfKubeletSocket(Head(watcherEvents))))
         => RestartEffect]_vars

\* A SIGHUP was handled with an endpoint serving; the restart is at its top.
C8_Witness ==
    /\ pc = "restart"
    /\ idx = 1
    /\ lastEvent = "ReloadSignal"
    /\ \E k \in Indices : plugins[k].serving

NothingSetUp ==
    /\ watcher = "none"
    /\ ~sigsOpen
    /\ cache = "new"
    /\ register = "new"
    /\ plugins = <<>>
    /\ pluginStartError = "nil"
    /\ retired = {}
    /\ cycleOps = <<>>
    /\ lastEvent = "none"
    /\ nvmlShutdowns = 0
    /\ Pending = 0

\* C9: when Init() fails and fail-fast is off, start() blocks: it creates no
\* watcher, resolves nothing, starts and stops no endpoint, receives nothing
\* and does not return.
C9_InitFailureBlocks ==
    (nvml = "failed" /\ ~failOnInitErrorFlag)
        => pc = "blocked" /\ ret = "none" /\ NothingSetUp

\* Init() has failed with fail-fast off.
C9_Witness ==
    /\ pc = "blocked"
    /\ nvml = "failed"
    /\ ~failOnInitErrorFlag

\* C10: when Init() fails and fail-fast is set, start() returns an error at
\* once: no watcher, cache, register, resolver call or Start() before it.
C10_InitFailureFailsFast ==
    (nvml = "failed" /\ failOnInitErrorFlag)
        => pc = "done" /\ ret = "error" /\ NothingSetUp

\* Init() has failed with fail-fast set and start() has returned.
C10_Witness ==
    /\ pc = "done"
    /\ nvml = "failed"
    /\ failOnInitErrorFlag

ResolverInvoked == \E j \in 1..Len(cycleOps) : cycleOps[j] = "Resolve"

\* C11: a failure of the strategy resolver ends start() with an error and is
\* not retried: once it has failed nothing is resolved again, no endpoint is
\* started and the event wait is never entered.
C11_ResolverFailureIsFatal ==
    /\ migStrategyFlag \notin MigStrategies
          => /\ pc \notin {"start", "events", "drain"}
             /\ pluginStartError = "nil"
             /\ lastEvent = "none"
             /\ plugins = <<>>
             /\ retired = {}
    /\ (migStrategyFlag \notin MigStrategies /\ ResolverInvoked)
          => pc = "done" /\ ret = "error"

\* The resolver failed and start() returned; an event that was waiting in a
\* channel was never received.
C11_Witness ==
    /\ pc = "done"
    /\ ret = "error"
    /\ cycleOps = <<"Resolve">>
    /\ Pending > 0

NvmlShutDown == nvml \in {"shutdown", "shutdown_error"}

\* C12 (amended): in every execution of start() that returns after Init() has
\* succeeded, Shutdown() is called exactly once, at the return and never
\* before it, however many cycles there were, and its result does not change
\* the return value; when Init() failed, Shutdown() is not called at all.
C12_ShutdownOnceAtReturn ==
    /\ pc # "done" => nvmlShutdowns = 0 /\ ~NvmlShutDown
    /\ pc = "done" => /\ nvmlShutdowns = IF nvml = "failed" THEN 0 ELSE 1
                      /\ nvml # "failed" => NvmlShutDown
                      /\ ret = IF Draining THEN "nil" ELSE "error"

\* start() has returned nil after more than one cycle and a Shutdown() that
\* reported an error.
C12_Witness ==
    /\ pc = "done"
    /\ retired # {}
    /\ nvml = "shutdown_error"
    /\ nvmlShutdowns = 1
    /\ ret = "nil"

\* C12 as stated: every execution of start() that returns has called
\* Shutdown() exactly once.
C12_Original == pc = "done" => nvmlShutdowns = 1

InitFailedFast == nvml = "failed" /\ failOnInitErrorFlag

WatcherNotCreated == watcher = "none" /\ NvmlShutDown

ResolverFailed == migStrategyFlag \notin MigStrategies /\ ResolverInvoked

\* C13 (amended): start() returns an error only when Init() failed with
\* fail-fast set, when the filesystem watcher could not be created or when
\* the strategy resolver failed; a failed Start(), a restart trigger or a
\* watcher error never makes it return an error, and the drain after a fatal
\* signal returns nil.
C13_ErrorOnlyAtStartup ==
    /\ pc # "done" => ret = "none"
    /\ ret = "error"
          => /\ InitFailedFast \/ WatcherNotCreated \/ ResolverFailed
             /\ pluginStartError = "nil"
             /\ lastEvent = "none"
    /\ (pc = "done" /\ pluginStartError # "nil") => Draining /\ ret = "nil"

\* start() returned nil after a restart and a cycle whose Start() failed.
C13_Witness ==
    /\ pc = "done"
    /\ ret = "nil"
    /\ retired # {}
    /\ pluginStartError = "closed"

\* C13 as stated: an error is returned only for an Init() failure with
\* fail-fast set or for a resolver failure.
C13_Original == ret = "error" => InitFailedFast \/ ResolverFailed

FatalPending == \E j \in 1..Len(sigs) : sigs[j] # "SIGHUP"

\* C14 (amended): once an interrupt, terminate or quit signal is in the
\* signal channel, the supervisor eventually handles it, stops every endpoint
\* and returns from the drain, even with Start() failing in every cycle,
\* unless start() returns the resolver's error before the first event wait.
C14_FatalSignalEventuallyDrains ==
    FatalPending
        ~> (pc = "done"
              /\ (ResolverFailed \/ (Draining /\ \A k \in Indices : ~plugins[k].serving)))

\* The drain ran in a cycle that followed others and whose first Start() failed.
C14_Witness ==
    /\ Draining
    /\ pc = "done"
    /\ retired # {}
    /\ pluginStartError = "closed"
    /\ started = 0

\* C14 as stated: a fatal signal in the channel is handled in the end, so
\* start() does not return with one waiting unless it drained.
C14_Original == (pc = "done" /\ FatalPending) => Draining

\* The start loop is left: by its end or by the jump out of it.
StartPassEnds == pc = "start" /\ pc' # "start"

\* The event wait after a pass that started nothing.
WaitsWithNoneStarted ==
    /\ pc = "events" /\ ret = "none"
    /\ noDevicesLogged = (pluginStartError = "open")
    /\ pluginStartError = "open" => \A k \in Indices : Devices(plugins[k]) = 0
    /\ pluginStartError = "closed"
          => FailedAt(idx) /\ \A k \in 1..(idx - 1) : Devices(plugins[k]) = 0

\* C15 (as amended): whenever the start pass ends with no plugin started,
\* start() goes on to the event wait and does not return; it has logged that
\* it waits indefinitely exactly when the loop ran to its end, and not when
\* the first Start() attempted failed and the loop was left by the jump.
C15_ZeroStartedWaits ==
    [][(StartPassEnds /\ started' = 0) => WaitsWithNoneStarted']_vars

C15_Witness ==
    /\ pc = "events" /\ started = 0 /\ noDevicesLogged
    /\ Len(plugins) >= 2 /\ retired # {}

\* C15 as stated: the wait is logged after every pass that started nothing.
C15_Original ==
    [][(StartPassEnds /\ started' = 0) => (pc' = "events" /\ noDevicesLogged')]_vars

\* The select takes an error off the watcher's Errors channel.
WatcherErrorReceived == watcherErrors' < watcherErrors

\* C16: handling a filesystem watcher error happens in the event wait and
\* leaves start() there: the PluginSet, every endpoint's started and stopped
\* status, the started-count and the failure channel are unchanged, no
\* Stop(), Start() or resolver call is made, nothing returns, and the two
\* other channels keep what they hold.
C16_WatcherErrorOnlyLogged ==
    [][WatcherErrorReceived
          => /\ pc = "events" /\ pc' = "events"
             /\ lastEvent' = "WatchError"
             /\ UNCHANGED <<ctl, watcherEvents, sigs>>]_vars

C16_Witness ==
    /\ pc = "events" /\ lastEvent = "WatchError"
    /\ \E k \in Indices : plugins[k].serving
    /\ \E k \in Indices : Devices(plugins[k]) = 0
    /\ retired # {}

\* The event wait is left: for a restart or for the drain.
LeavesEventWait == pc = "events" /\ pc' # "events"

\* The step takes a signal or a filesystem event off its channel.
ReceivesFromOutside ==
    \/ sigs # <<>> /\ sigs' = Tail(sigs)
    \/ watcherEvents # <<>> /\ watcherEvents' = Tail(watcherEvents)

\* C17: the failure channel is new in every cycle.  Every start pass begins
\* and runs with an open channel, whatever failed in the cycles before; the
\* channel is closed in the event wait only by a failed Start() of the
\* current PluginSet; and an event wait entered after a pass in which no
\* Start() failed is left only by a step that receives a filesystem event or
\* a signal, never on a failure of an earlier cycle.
C17_FailureSignalFreshPerCycle ==
    [][/\ pc' = "start" => pluginStartError' = "open" /\ Failures' = {}
       /\ (pc' = "events" /\ pluginStartError' = "closed") => Failures' = {idx'}
       /\ (LeavesEventWait /\ Failures = {})
             => pluginStartError = "open" /\ ReceivesFromOutside]_vars

C17_Witness ==
    /\ pc = "start" /\ lastEvent = "PluginFailure"
    /\ idx > Len(plugins) /\ started = Len(plugins) /\ started >= 1
    /\ pluginStartError = "open"

IsPrefix(s, t) == Len(s) <= Len(t) /\ SubSeq(t, 1, Len(s)) = s

\* The step takes nothing off a channel.
QueuesKept ==
    /\ IsPrefix(watcherEvents, watcherEvents')
    /\ IsPrefix(sigs, sigs')
    /\ watcherErrors' >= watcherErrors

\* The control task runs between the watchers' creation and a return, and is
\* not in the event wait: it starts the cache or the registration, stops,
\* resolves or starts plugins.
OutsideServing == pc \in {"cache", "register", "restart", "start"}

AgentRestartQueued ==
    \E j \in 1..Len(watcherEvents) : IsKubeletRestart(watcherEvents[j])

ReloadQueued == \E j \in 1..Len(sigs) : sigs[j] = "SIGHUP"

Returned == pc = "done" /\ (Draining \/ ResolverFailed)

StartCalled(k) ==
    /\ Len(plugins') = Len(plugins)
    /\ plugins'[k].starts > plugins[k].starts

\* C19: every endpoint has Start() called at most once and Stop() at most
\* once; Start() is called only on an endpoint that has not been stopped;
\* while the set is started and served none of it is stopped; and every
\* endpoint of a set that was replaced, or drained before the return, had
\* Stop() called, whether or not it owns devices, was started, or failed.
C19_StartStopOncePerEndpoint ==
    /\ [](\A k \in Indices : plugins[k].starts <= 1 /\ plugins[k].stops <= 1)
    /\ [][\A k \in Indices : StartCalled(k) => plugins[k].stops = 0]_vars
    /\ [](pc \in {"start", "events"} => \A k \in Indices : plugins[k].stops = 0)
    /\ [](pc \in {"restart", "drain"}
            => \A k \in Indices : plugins[k].stops = IF k < idx THEN 1 ELSE 0)
    /\ [](\A r \in retired : r.stops = 1)
    /\ []((pc = "done" /\ Draining) => \A k \in Indices : plugins[k].stops = 1)

C19_Witness ==
    /\ pc = "restart" /\ idx > Len(plugins) /\ lastEvent = "PluginFailure"
    /\ \E k \in Indices : Devices(plugins[k]) = 0 /\ plugins[k].stops = 1
    /\ \E k \in Indices : plugins[k].starts = 1 /\ plugins[k].stops = 1
    /\ \E k \in Indices :
          Devices(plugins[k]) # 0 /\ plugins[k].starts = 0 /\ plugins[k].stops = 1

\* C20: when start() has returned after Init() succeeded, by the drain or
\* with the resolver's error, no endpoint of the last PluginSet or of an
\* earlier one serves, and every endpoint that had Start() called has had
\* Stop() called.
C20_NoEndpointLeftStarted ==
    (pc = "done" /\ nvml # "failed")
       => /\ \A k \in Indices :
                ~plugins[k].serving /\ (plugins[k].starts = 1 => plugins[k].stops = 1)
          /\ \A r \in retired : ~r.serving

C20_Witness ==
    /\ pc = "done" /\ Draining /\ NvmlShutDown
    /\ started >= 2 /\ started < Len(plugins)
    /\ retired # {}

====
